---------------------------- MODULE Spec2Model ----------------------------
(***************************************************************************)
(* Model of proc_route_parser: the hex codec (src/src/utils.rs), the IPv4  *)
(* and IPv6 route entry parsers and route table iterators                  *)
(* (src/src/ipv4.rs, src/src/ipv6.rs).                                     *)
(*                                                                         *)
(* Text is a sequence of bytes.  A u32 is kept as its two 16-bit halves    *)
(* [hi, lo] (value hi * 2^16 + lo), so that every number                   *)
(* stays below 2^31; u8 and u16 are plain numbers.  An address is the      *)
(* sequence of its octets.  A str is the sequence of the bytes of its      *)
(* UTF-8 encoding; a character is its code point.                          *)
(***************************************************************************)
EXTENDS Integers, Sequences, FiniteSets, TLC

VARIABLES
    family,   \* 4: Ipv4RouteTable / Ipv4RouteEntry, 6: the IPv6 ones
    open_result, \* what open(path) returned: Ok (a table) or Err(io::Error)
    src,      \* the line source: what each read of BufReader::lines gives
    src_end,  \* what the reads after those give: "Eof", or "Io" without end
    pos,      \* Lines<BufReader<File>>: number of reads already consumed
    skip_n,   \* Skip::n of Ipv4RouteTable.lines (0 for the IPv6 table)
    out,      \* the items next() has yielded so far, in order
    ended,    \* the last next() returned None
    calls,    \* number of next() calls made
    parts,    \* the pieces the input text was written from
    text,     \* input of the parser or decoder applied (a line or a field)
    result,   \* its outcome, <<>> before it is applied
    applied   \* which function produced result

vars == <<family, open_result, src, src_end, pos, skip_n, out, ended, calls,
          parts, text, result, applied>>

tableVars == <<family, open_result, src, src_end, pos, skip_n, out, ended, calls>>

fnVars == <<parts, text, result, applied>>

(***************************************************************************)
(* Text                                                                    *)
(***************************************************************************)
Ascii ==
    ("0" :> 48) @@ ("1" :> 49) @@ ("2" :> 50) @@ ("3" :> 51) @@ ("4" :> 52) @@
    ("5" :> 53) @@ ("6" :> 54) @@ ("7" :> 55) @@ ("8" :> 56) @@ ("9" :> 57) @@
    ("A" :> 65) @@ ("B" :> 66) @@ ("C" :> 67) @@ ("D" :> 68) @@ ("E" :> 69) @@
    ("F" :> 70) @@ ("G" :> 71) @@ ("Z" :> 90) @@
    ("a" :> 97) @@ ("b" :> 98) @@ ("c" :> 99) @@ ("d" :> 100) @@ ("e" :> 101) @@
    ("f" :> 102) @@ ("g" :> 103) @@ ("l" :> 108) @@ ("o" :> 111) @@
    ("t" :> 116) @@ ("h" :> 104) @@ ("I" :> 73) @@
    (" " :> 32) @@ ("\t" :> 9) @@ ("/" :> 47) @@ ("@" :> 64) @@ (":" :> 58)

\* The bytes of a text written as a tuple of one-character strings.
T(chars) == [i \in 1..Len(chars) |-> Ascii[chars[i]]]

RECURSIVE Concat(_)
Concat(seqs) == IF seqs = <<>> THEN <<>> ELSE Head(seqs) \o Concat(Tail(seqs))

\* s repeated n times.
RECURSIVE Repeat(_, _)
Repeat(s, n) == IF n = 0 THEN <<>> ELSE s \o Repeat(s, n - 1)

(***************************************************************************)
(* Outcomes.  Ok and Err are Rust's Result; Panic is an unwinding panic    *)
(* (an out-of-bounds index), which ends the call without a value.          *)
(***************************************************************************)
Ok(v) == [tag |-> "Ok", val |-> v]

Err(e) == [tag |-> "Err", err |-> e]

Panic == [tag |-> "Panic"]

IsOk(r) == r.tag = "Ok"

IsErr(r) == r.tag = "Err"

\* ConvertError (utils.rs)
OddStringLength(t) == [kind |-> "OddStringLength", text |-> t]

OutOfHexRange(a) == [kind |-> "OutOfHexRange", byte |-> a]

ConvertSliceToBytes == [kind |-> "SliceToBytes"]

\* std::io::Error, as open returns it.
io_Error == [kind |-> "io::Error"]

\* RouteParseError (lib.rs)
IoError == [kind |-> "Io"]

Convert(e) == [kind |-> "Convert", inner |-> e]

InvalidFieldCount(e, f) == [kind |-> "InvalidFieldCount", expected |-> e, found |-> f]

MissingField(i) == [kind |-> "MissingField", index |-> i]

SliceToBytes == [kind |-> "SliceToBytes"]

\* The `?` operator on a Result<_, ConvertError> inside a function returning
\* RouteParseError: #[from] wraps the error in Convert.
FromConvert(r) == IF IsErr(r) THEN Err(Convert(r.err)) ELSE r

\* `r?` followed by the rest of the function: F on the value of an Ok,
\* anything else ends the function with r.
Bind(r, F(_)) == IF IsOk(r) THEN F(r.val) ELSE r

(***************************************************************************)
(* utils.rs                                                                *)
(***************************************************************************)
hex_char_to_u8(hex) ==
    IF hex >= 48 /\ hex <= 57 THEN Ok(hex - 48)
    ELSE IF hex >= 97 /\ hex <= 102 THEN Ok(hex - 97 + 10)
    ELSE IF hex >= 65 /\ hex <= 70 THEN Ok(hex - 65 + 10)
    ELSE Err(OutOfHexRange(hex))

\* double_chars is a [u8; 2]; high << 4 | low on u8 operands below 16.
hex_char_pair_to_byte(double_chars) ==
    Bind(hex_char_to_u8(double_chars[1]), LAMBDA high :
        Bind(hex_char_to_u8(double_chars[2]), LAMBDA low :
            Ok(((high * 16) % 256) + low)))

\* slice::chunks_exact(2): the full pairs, the remainder dropped.
chunks_exact2(bytes) ==
    [i \in 1..(Len(bytes) \div 2) |-> <<bytes[2 * i - 1], bytes[2 * i]>>]

\* The loop of hex_str_to_bytes / hex_str_to_ipv4: decode the pairs left to
\* right, stop at the first error.
RECURSIVE DecodePairs(_, _, _)
DecodePairs(pairs, i, buf) ==
    IF i > Len(pairs) THEN Ok(buf)
    ELSE Bind(hex_char_pair_to_byte(pairs[i]), LAMBDA b :
             DecodePairs(pairs, i + 1, Append(buf, b)))

hex_str_to_bytes(t) ==
    IF Len(t) % 2 # 0 THEN Err(OddStringLength(t))
    ELSE DecodePairs(chunks_exact2(t), 1, <<>>)

\* <[u8; N]>::try_from(&[u8]): the slice must have exactly N bytes.
try_into_array(bytes, n) ==
    IF Len(bytes) = n THEN Ok(bytes) ELSE Err(ConvertSliceToBytes)

hex_str_to_ipv6(t) ==
    Bind(hex_str_to_bytes(t), LAMBDA bytes : try_into_array(bytes, 16))

\* A u32 as its two 16-bit halves.
U32(hi, lo) == [hi |-> hi, lo |-> lo]

\* from_le_bytes read as from_be_bytes: the byte order not reversed.
u32_from_le_bytes_AsBe(bytes) ==
    U32(bytes[1] * 256 + bytes[2], bytes[3] * 256 + bytes[4])

\* u32::from_le_bytes: bytes[0] is the least significant byte.
u32_from_le_bytes(bytes) ==
    U32(bytes[4] * 256 + bytes[3], bytes[2] * 256 + bytes[1])

\* u32::from_be_bytes: bytes[0] is the most significant byte.
u32_from_be_bytes(bytes) ==
    U32(bytes[1] * 256 + bytes[2], bytes[3] * 256 + bytes[4])

\* u16::from_be_bytes
u16_from_be_bytes(bytes) == bytes[1] * 256 + bytes[2]

\* Ipv4Addr::from(u32): the octets a.b.c.d are the word's bytes, most
\* significant first.
Ipv4Addr_from_u32(word) ==
    <<word.hi \div 256, word.hi % 256, word.lo \div 256, word.lo % 256>>

\* The loop of hex_str_to_ipv4: bytes[i] = hex_char_pair_to_byte(chunk)?
\* for the i-th chunk, bytes being a [u8; 4].
RECURSIVE Ipv4Loop(_, _, _)
Ipv4Loop(pairs, i, bytes) ==
    IF i > Len(pairs) THEN Ok(bytes)
    ELSE Bind(hex_char_pair_to_byte(pairs[i]), LAMBDA b :
             IF i > Len(bytes) THEN Panic   \* index out of bounds
             ELSE Ipv4Loop(pairs, i + 1, [bytes EXCEPT ![i] = b]))

hex_str_to_ipv4(t) ==
    IF Len(t) # 8 THEN Err(OddStringLength(t))
    ELSE Bind(Ipv4Loop(chunks_exact2(t), 1, <<0, 0, 0, 0>>), LAMBDA bytes :
             Ok(Ipv4Addr_from_u32(u32_from_le_bytes(bytes))))

(***************************************************************************)
(* Route flags (bitflags!): from_bits_retain keeps every bit; contains is  *)
(* (self & other) == other.                                                *)
(***************************************************************************)
RECURSIVE BitAnd(_, _)
BitAnd(a, b) ==
    IF a = 0 \/ b = 0 THEN 0
    ELSE (a % 2) * (b % 2) + 2 * BitAnd(a \div 2, b \div 2)

Ipv4RouteFlags ==
    [UP |-> 1, GATEWAY |-> 2, HOST |-> 4, REINSTATE |-> 8, DYNAMIC |-> 16,
     MODIFIED |-> 32, MTU |-> 64, WINDOW |-> 128, IRTT |-> 256, REJECT |-> 512]

Ipv4RouteFlags_from_bits_retain(bits) == bits

Ipv4RouteFlags_contains(self, other) == BitAnd(self, other) = other

\* `Ipv4RouteFlags::X.bits() as u32`
AsU32(u16) == U32(0, u16)

Ipv6RouteFlags ==
    [UP |-> AsU32(Ipv4RouteFlags.UP), GATEWAY |-> AsU32(Ipv4RouteFlags.GATEWAY),
     HOST |-> AsU32(Ipv4RouteFlags.HOST),
     REINSTATE |-> AsU32(Ipv4RouteFlags.REINSTATE),
     DYNAMIC |-> AsU32(Ipv4RouteFlags.DYNAMIC),
     MODIFIED |-> AsU32(Ipv4RouteFlags.MODIFIED),
     MTU |-> AsU32(Ipv4RouteFlags.MTU), WINDOW |-> AsU32(Ipv4RouteFlags.WINDOW),
     IRTT |-> AsU32(Ipv4RouteFlags.IRTT), REJECT |-> AsU32(Ipv4RouteFlags.REJECT),
     DEFAULT |-> U32(1, 0), ALL_ON_LINK |-> U32(2, 0), ADDR_CONF |-> U32(4, 0),
     PREFIX_ONLY |-> U32(8, 0), ANYCAST |-> U32(16, 0), NO_NEXT_HOP |-> U32(32, 0),
     EXPIRES |-> U32(64, 0), ROUTE_INFO |-> U32(128, 0), CACHE |-> U32(256, 0),
     FLOW |-> U32(512, 0), POLICY |-> U32(1024, 0),
     PREF_RESERVED |-> U32(0, 0),
     PREF_HIGH |-> U32(2048, 0),      \* 1 << 27
     PREF_MEDIUM |-> U32(4096, 0),    \* 2 << 27
     PREF_LOW |-> U32(6144, 0),       \* 3 << 27
     PER_CPU |-> U32(16384, 0)]
    @@ ("LOCAL" :> U32(32768, 0))

Ipv6RouteFlags_from_bits_retain(bits) == bits

\* contains read as intersects: (self & other) != 0.
Ipv6RouteFlags_intersects(self, other) ==
    BitAnd(self.hi, other.hi) # 0 \/ BitAnd(self.lo, other.lo) # 0

Ipv6RouteFlags_contains(self, other) ==
    /\ BitAnd(self.hi, other.hi) = other.hi
    /\ BitAnd(self.lo, other.lo) = other.lo

(***************************************************************************)
(* Entry parsers                                                           *)
(***************************************************************************)
\* char::is_whitespace on a code point: the Unicode White_Space property.
is_whitespace(c) ==
    \/ c >= 9 /\ c <= 13
    \/ c = 32
    \/ c = 133           \* U+0085
    \/ c = 160           \* U+00A0
    \/ c = 5760          \* U+1680
    \/ c >= 8192 /\ c <= 8202    \* U+2000..U+200A
    \/ c = 8232 \/ c = 8233      \* U+2028, U+2029
    \/ c = 8239          \* U+202F
    \/ c = 8287          \* U+205F
    \/ c = 12288         \* U+3000

\* The number of bytes of the UTF-8 character whose first byte is b, 0 for
\* a continuation byte.  A str is always well-formed UTF-8.
utf8_char_width(b) ==
    IF b < 128 THEN 1
    ELSE IF b < 192 THEN 0
    ELSE IF b < 224 THEN 2
    ELSE IF b < 240 THEN 3
    ELSE 4

\* str::chars: the code point of the character that starts at byte j.
CharAt(line, j) ==
    CASE utf8_char_width(line[j]) = 1 -> line[j]
      [] utf8_char_width(line[j]) = 2 ->
            (line[j] % 32) * 64 + (line[j + 1] % 64)
      [] utf8_char_width(line[j]) = 3 ->
            (line[j] % 16) * 4096 + (line[j + 1] % 64) * 64 + (line[j + 2] % 64)
      [] utf8_char_width(line[j]) = 4 ->
            (line[j] % 8) * 262144 + (line[j + 1] % 64) * 4096
                + (line[j + 2] % 64) * 64 + (line[j + 3] % 64)

\* Byte i of the line belongs to a white space character.
WhiteAt(line, i) ==
    IF line[i] < 128 THEN is_whitespace(line[i])
    ELSE \E j \in (IF i > 3 THEN i - 3 ELSE 1)..i :
            /\ utf8_char_width(line[j]) > i - j
            /\ j + utf8_char_width(line[j]) - 1 <= Len(line)
            /\ is_whitespace(CharAt(line, j))

\* The byte positions where a maximal run of non-whitespace starts.
FieldStarts(line) ==
    {i \in 1..Len(line) :
        ~WhiteAt(line, i) /\ (i = 1 \/ WhiteAt(line, i - 1))}

\* The last byte position of the run that starts at s.
FieldEnd(line, s) ==
    CHOOSE e \in s..Len(line) :
        /\ \A j \in s..e : ~WhiteAt(line, j)
        /\ e = Len(line) \/ WhiteAt(line, e + 1)

\* The k-th smallest element of a set of numbers.
Kth(S, k) == CHOOSE s \in S : Cardinality({y \in S : y < s}) = k - 1

\* The run that starts at s.
FieldAt(line, s) == SubSeq(line, s, FieldEnd(line, s))

\* The runs that start at the positions starts, in order.
FieldsAt(line, starts) ==
    [k \in 1..Cardinality(starts) |-> FieldAt(line, Kth(starts, k))]

\* str::split_whitespace: the maximal runs of non-whitespace, in order.
split_whitespace(line) == FieldsAt(line, FieldStarts(line))

\* The get_field closure: fields.get(i).cloned().ok_or(MissingField(i)),
\* i counted from 0.
get_field(fields, i) ==
    IF i < Len(fields) THEN Ok(fields[i + 1]) ELSE Err(MissingField(i))

\* `<[u8; N]>::try_from(slice)?` in from_str: the error converts to
\* RouteParseError::SliceToBytes.
try_into_q(bytes, n) ==
    IF Len(bytes) = n THEN Ok(bytes) ELSE Err(SliceToBytes)

\* hex_str_to_ipv4(get_field(i)?)?
Ipv4AddrField(fields, i) ==
    Bind(get_field(fields, i), LAMBDA f : FromConvert(hex_str_to_ipv4(f)))

\* Ipv4RouteFlags::from_bits_retain(u16::from_be_bytes(
\*     (*hex_str_to_bytes(get_field(i)?)?).try_into()?))
Ipv4FlagsField(fields, i) ==
    Bind(get_field(fields, i), LAMBDA f :
        Bind(FromConvert(hex_str_to_bytes(f)), LAMBDA bytes :
            Bind(try_into_q(bytes, 2), LAMBDA arr :
                Ok(Ipv4RouteFlags_from_bits_retain(u16_from_be_bytes(arr))))))

\* as_bytes()[1]: the index off by one, a panic on a one-character field.
first_byte_OffByOne(f) == IF Len(f) < 2 THEN Panic ELSE Ok(f[2])

\* as_bytes()[0]: the first byte of a field, a panic on an empty one.
first_byte(f) == IF Len(f) = 0 THEN Panic ELSE Ok(f[1])

\* hex_char_to_u8(get_field(i)?.as_bytes()[0])?
Ipv4ByteField(fields, i) ==
    Bind(get_field(fields, i), LAMBDA f :
        Bind(first_byte(f), LAMBDA b : FromConvert(hex_char_to_u8(b))))

\* The value of a struct expression whose field initialisers are evaluated
\* in order, each ending the function at its first failure.
RECURSIVE FirstFailure(_, _)
FirstFailure(rs, i) ==
    IF i > Len(rs) THEN Ok(TRUE)
    ELSE IF ~IsOk(rs[i]) THEN rs[i]
    ELSE FirstFailure(rs, i + 1)

IPV4_ROUTE_FILED_COUNT == 11

\* Ok(Ipv4RouteEntry { .. }) from the outcomes of the field initialisers.
Ipv4RouteEntry_build(rs) ==
    Bind(FirstFailure(rs, 1), LAMBDA none :
        Ok([name |-> rs[1].val, dest |-> rs[2].val, gateway |-> rs[3].val,
            flags |-> rs[4].val, ref_count |-> rs[5].val,
            use_count |-> rs[6].val, metric |-> rs[7].val,
            mask |-> rs[8].val, mtu |-> rs[9].val, window |-> rs[10].val,
            irtt |-> rs[11].val]))

\* from_str after the split.
Ipv4RouteEntry_from_fields(fields) ==
    IF Len(fields) < IPV4_ROUTE_FILED_COUNT
    THEN Err(InvalidFieldCount(IPV4_ROUTE_FILED_COUNT, Len(fields)))
    ELSE Ipv4RouteEntry_build(
             <<get_field(fields, 0), Ipv4AddrField(fields, 1),
               Ipv4AddrField(fields, 2), Ipv4FlagsField(fields, 3),
               Ipv4ByteField(fields, 4), Ipv4ByteField(fields, 5),
               Ipv4ByteField(fields, 6), Ipv4AddrField(fields, 7),
               Ipv4ByteField(fields, 8), Ipv4ByteField(fields, 9),
               Ipv4ByteField(fields, 10)>>)

Ipv4RouteEntry_from_str(line) ==
    Ipv4RouteEntry_from_fields(split_whitespace(line))

\* hex_str_to_ipv6(get_field(i)?)?
Ipv6AddrField(fields, i) ==
    Bind(get_field(fields, i), LAMBDA f : FromConvert(hex_str_to_ipv6(f)))

\* hex_char_pair_to_byte(get_field(i)?.as_bytes().try_into()?)?
Ipv6PrefixField(fields, i) ==
    Bind(get_field(fields, i), LAMBDA f :
        Bind(try_into_q(f, 2), LAMBDA arr :
            FromConvert(hex_char_pair_to_byte(arr))))

\* u32::from_be_bytes((*hex_str_to_bytes(get_field(i)?)?).try_into()?)
Ipv6WordField(fields, i) ==
    Bind(get_field(fields, i), LAMBDA f :
        Bind(FromConvert(hex_str_to_bytes(f)), LAMBDA bytes :
            Bind(try_into_q(bytes, 4), LAMBDA arr :
                Ok(u32_from_be_bytes(arr)))))

\* Ipv6RouteFlags::from_bits_retain(u32::from_be_bytes(...))
Ipv6FlagsField(fields, i) ==
    Bind(Ipv6WordField(fields, i), LAMBDA w :
        Ok(Ipv6RouteFlags_from_bits_retain(w)))

IPV6_ROUTE_FIELD_COUNT == 10

\* Ok(Ipv6RouteEntry { .. }) from the outcomes of the field initialisers.
Ipv6RouteEntry_build(rs) ==
    Bind(FirstFailure(rs, 1), LAMBDA none :
        Ok([dest |-> rs[1].val, dest_prefix |-> rs[2].val, src |-> rs[3].val,
            src_prefix |-> rs[4].val, next_hop |-> rs[5].val,
            metric |-> rs[6].val, ref_count |-> rs[7].val,
            use_count |-> rs[8].val, flags |-> rs[9].val,
            name |-> rs[10].val]))

\* from_str without the field count check: the fields are decoded at once.
Ipv6RouteEntry_from_fields_NoCount(fields) ==
    Ipv6RouteEntry_build(
        <<Ipv6AddrField(fields, 0), Ipv6PrefixField(fields, 1),
          Ipv6AddrField(fields, 2), Ipv6PrefixField(fields, 3),
          Ipv6AddrField(fields, 4), Ipv6WordField(fields, 5),
          Ipv6WordField(fields, 6), Ipv6WordField(fields, 7),
          Ipv6FlagsField(fields, 8), get_field(fields, 9)>>)

\* from_str after the split.
Ipv6RouteEntry_from_fields(fields) ==
    IF Len(fields) < IPV6_ROUTE_FIELD_COUNT
    THEN Err(InvalidFieldCount(IPV6_ROUTE_FIELD_COUNT, Len(fields)))
    ELSE Ipv6RouteEntry_build(
             <<Ipv6AddrField(fields, 0), Ipv6PrefixField(fields, 1),
               Ipv6AddrField(fields, 2), Ipv6PrefixField(fields, 3),
               Ipv6AddrField(fields, 4), Ipv6WordField(fields, 5),
               Ipv6WordField(fields, 6), Ipv6WordField(fields, 7),
               Ipv6FlagsField(fields, 8), get_field(fields, 9)>>)

Ipv6RouteEntry_from_str(line) ==
    Ipv6RouteEntry_from_fields(split_whitespace(line))

(***************************************************************************)
(* Route table iterators.  The line source is what the reads of            *)
(* BufRead::lines give, each a line of text or an I/O error: a finite      *)
(* sequence of reads, and then either the end of the file or, for a reader *)
(* that cannot be read (a directory, a failed device), an I/O error at     *)
(* every further read.                                                     *)
(***************************************************************************)
LineRead(t) == [io |-> FALSE, line |-> t]

IoFailure == [io |-> TRUE, line |-> <<>>]

\* The BufReader<File> the table reads from.
BufReader(reads, end) == [reads |-> reads, end |-> end]

None == [some |-> FALSE]

Some(v) == [some |-> TRUE, val |-> v]

\* Lines::next: the next read; past the reads of the source, None at the
\* end of the file, an I/O error where the reader keeps failing.
Lines_next(source, p) ==
    IF p < Len(source.reads)
    THEN [item |-> Some(source.reads[p + 1]), pos |-> p + 1]
    ELSE IF source.end = "Io" THEN [item |-> Some(IoFailure), pos |-> p]
    ELSE [item |-> None, pos |-> p]

\* Iterator::nth(n) of Lines: n reads are dropped whatever they are, the
\* next one is returned; None as soon as a read gives None.
RECURSIVE Lines_nth(_, _, _)
Lines_nth(source, p, n) ==
    IF n = 0 \/ ~Lines_next(source, p).item.some THEN Lines_next(source, p)
    ELSE Lines_nth(source, Lines_next(source, p).pos, n - 1)

\* Skip::next without the skip: lines() alone.
Skip_next_NoSkip(source, p, n) == Lines_next(source, p) @@ [n |-> 0]

\* Skip::next: the first call is nth(take(n)), the later ones next().
Skip_next(source, p, n) ==
    IF n > 0 THEN Lines_nth(source, p, n) @@ [n |-> 0]
    ELSE Lines_next(source, p) @@ [n |-> n]

\* The closure of Ipv4RouteTable::next: `line_result?` then parse.
Ipv4Item(read) ==
    IF read.io THEN Err(IoError) ELSE Ipv4RouteEntry_from_str(read.line)

\* The closure of Ipv6RouteTable::next.
Ipv6Item(read) ==
    IF read.io THEN Err(IoError) ELSE Ipv6RouteEntry_from_str(read.line)

\* Option::map of the closure over what the line iterator returned.
Ipv4Map(r) ==
    [item |-> IF r.item.some THEN Some(Ipv4Item(r.item.val)) ELSE None,
     pos |-> r.pos, n |-> r.n]

\* A map that ends the iteration at the first item that is an error.
Ipv6Map_StopOnError(r) ==
    [item |-> IF r.item.some /\ IsOk(Ipv6Item(r.item.val))
              THEN Some(Ipv6Item(r.item.val)) ELSE None,
     pos |-> r.pos]

Ipv6Map(r) ==
    [item |-> IF r.item.some THEN Some(Ipv6Item(r.item.val)) ELSE None,
     pos |-> r.pos]

\* Ipv4RouteTable::next: self.lines.next().map(closure).
Ipv4RouteTable_next(source, p, n) == Ipv4Map(Skip_next(source, p, n))

\* Ipv6RouteTable::next: self.line_iter.next().map(closure).
Ipv6RouteTable_next(source, p) == Ipv6Map(Lines_next(source, p))

\* Ipv4RouteTable::open: reader.lines().skip(1).
Ipv4SkipCount == 1

\* Ipv6RouteTable::open: reader.lines().
Ipv6SkipCount == 0

(***************************************************************************)
(* Bounds and input pools                                                  *)
(***************************************************************************)
MaxLines == 3

\* next() is called until it has returned None, and once more after that.
MaxCalls == MaxLines + 2

Zeros8 == Repeat(T(<<"0">>), 8)

Zeros32 == Repeat(T(<<"0">>), 32)

Tab == T(<<"\t">>)

RECURSIVE Join(_, _)
Join(fields, sep) ==
    IF fields = <<>> THEN <<>>
    ELSE IF Len(fields) = 1 THEN Head(fields)
    ELSE Head(fields) \o sep \o Join(Tail(fields), sep)

\* The column header line of /proc/net/route (its first word).
HeaderLine == T(<<"I", "f", "a", "c", "e">>)

\* A data line of /proc/net/route: lo, 0.0.0.0, flags UP.
GoodFields4 ==
    <<T(<<"l", "o">>), Zeros8, T(<<"0", "1", "0", "0", "A", "8", "C", "0">>),
      T(<<"0", "0", "0", "1">>), T(<<"0", "0">>), T(<<"0", "0">>),
      T(<<"0", "0">>), Zeros8, T(<<"0", "0">>), T(<<"0", "0">>), T(<<"0", "0">>)>>

GoodLine4 == Join(GoodFields4, Tab)

\* A data line of /proc/net/ipv6_route.
GoodFields6 ==
    <<Zeros32, T(<<"0", "0">>), Zeros32, T(<<"0", "0">>), Zeros32,
      T(<<"0", "0", "0", "0", "0", "4", "0", "0">>), Zeros8, Zeros8,
      T(<<"0", "0", "0", "1", "0", "0", "0", "0">>), T(<<"l", "o">>)>>

GoodLine6 == Join(GoodFields6, T(<<" ">>))

\* A line that is malformed for both families: two fields.
BadLine == T(<<"l", "o", " ", "Z", "Z">>)

SourceItems ==
    {IoFailure, LineRead(HeaderLine), LineRead(GoodLine4), LineRead(GoodLine6),
     LineRead(BadLine)}

Sources == UNION {[1..n -> SourceItems] : n \in 0..MaxLines}

NotApplied == [tag |-> "None"]

(***************************************************************************)
(* The route table state machine                                           *)
(***************************************************************************)
\* The state open(path) leaves: `File::open_buffered(path)?` fails and
\* there is no table, or the table holds the line iterator of the reader.
Init ==
    /\ family \in {4, 6}
    /\ \/ /\ open_result = Err(io_Error)
          /\ src = <<>> /\ src_end = "Eof"
       \/ /\ open_result = Ok("table")
          /\ src \in Sources
          /\ src_end \in {"Eof", "Io"}
    /\ pos = 0
    /\ skip_n = IF family = 4 THEN Ipv4SkipCount ELSE Ipv6SkipCount
    /\ out = <<>>
    /\ ended = FALSE
    /\ calls = 0
    /\ parts = <<>>
    /\ text = <<>>
    /\ result = NotApplied
    /\ applied = "none"

\* The caller's side of a call of next(): the item, if any, is collected.
Yield(r) ==
    /\ pos' = r.pos
    /\ out' = IF r.item.some THEN Append(out, r.item.val) ELSE out
    /\ ended' = ~r.item.some
    /\ calls' = calls + 1

\* One call of Ipv4RouteTable::next by the consumer of the iterator.
Ipv4Yield(r) == Yield(r) /\ skip_n' = r.n

Ipv4Next ==
    /\ family = 4
    /\ IsOk(open_result)
    /\ calls < MaxCalls
    /\ Ipv4Yield(Ipv4RouteTable_next(BufReader(src, src_end), pos, skip_n))
    /\ UNCHANGED <<family, open_result, src, src_end, fnVars>>

\* One call of Ipv6RouteTable::next.
Ipv6Next ==
    /\ family = 6
    /\ IsOk(open_result)
    /\ calls < MaxCalls
    /\ Yield(Ipv6RouteTable_next(BufReader(src, src_end), pos))
    /\ UNCHANGED <<family, open_result, src, src_end, skip_n, fnVars>>

Next == Ipv4Next \/ Ipv6Next

Spec == Init /\ [][Next]_vars

(***************************************************************************)
(* The entry parsers applied to one line                                   *)
(***************************************************************************)
\* Fields a line may carry beyond the minimum of its family.
MaxExtraFields == 1

MinFields(fam) ==
    IF fam = 4 THEN IPV4_ROUTE_FILED_COUNT ELSE IPV6_ROUTE_FIELD_COUNT

\* Field texts: hex fields of each width, with the defects a field can have
\* (a character that is no hex digit, an odd length, a wrong width).
FieldPool ==
    {T(<<"0">>), T(<<"7">>), T(<<"1", "A">>), T(<<"f", "F">>), T(<<"0", "Z">>),
     T(<<"Z", "0">>), T(<<"1", "2", "3">>), T(<<"0", "2", "0", "3">>),
     T(<<"0", "1", "0", "0", "A", "8", "C", "0">>),
     T(<<"0", "1", "0", "0", "A", "8", "C", "g">>),
     T(<<"0", "1", "0", "0", "A", "8", "C">>),
     <<195, 169>>,   \* one two-byte UTF-8 character
     <<226, 128, 139>>,   \* U+200B, which is no white space
     Repeat(T(<<"f", "E", "8", "0">>), 8),
     Repeat(T(<<"f", "E", "8", "0">>), 7) \o T(<<"0", "0", "0", "/">>)}

\* The first n fields of the family's good line, continued past its end
\* with one more name.
BaseFields(fam, n) ==
    LET good == (IF fam = 4 THEN GoodFields4 ELSE GoodFields6)
                    \o [k \in 1..MaxExtraFields |-> T(<<"e", "t", "h">>)]
    IN  SubSeq(good, 1, n)

\* The field lists: a prefix of the good line, at most one field replaced.
FieldLists(fam) ==
    UNION {{BaseFields(fam, n)}
               \cup {[BaseFields(fam, n) EXCEPT ![i] = f] :
                        i \in 1..n, f \in FieldPool} :
           n \in 0..(MinFields(fam) + MaxExtraFields)}

\* How a line is laid out: what leads, what separates, what trails.
LineShapes ==
    {[lead |-> <<>>, sep |-> Tab, trail |-> <<>>],
     [lead |-> T(<<" ">>), sep |-> T(<<" ", " ">>), trail |-> Tab],
     \* U+3000, U+00A0, U+2003
     [lead |-> <<227, 128, 128>>, sep |-> <<194, 160>>,
      trail |-> <<226, 128, 131>>]}

WriteLine(fields, shape) == shape.lead \o Join(fields, shape.sep) \o shape.trail

\* No table is opened.
NoTable ==
    /\ open_result = NotApplied
    /\ src = <<>> /\ src_end = "Eof" /\ pos = 0 /\ skip_n = 0 /\ out = <<>>
    /\ ended = FALSE /\ calls = 0

InitParse ==
    /\ family \in {4, 6}
    /\ NoTable
    /\ parts \in FieldLists(family)
    /\ \E shape \in LineShapes : text = WriteLine(parts, shape)
    /\ result = NotApplied
    /\ applied = "none"

\* line.parse::<Ipv4RouteEntry>()
Ipv4FromStr ==
    /\ family = 4 /\ applied = "none"
    /\ result' = Ipv4RouteEntry_from_str(text)
    /\ applied' = "from_str"
    /\ UNCHANGED <<tableVars, parts, text>>

\* line.parse::<Ipv6RouteEntry>()
Ipv6FromStr ==
    /\ family = 6 /\ applied = "none"
    /\ result' = Ipv6RouteEntry_from_str(text)
    /\ applied' = "from_str"
    /\ UNCHANGED <<tableVars, parts, text>>

NextParse == Ipv4FromStr \/ Ipv6FromStr

ParseSpec == InitParse /\ [][NextParse]_vars

(***************************************************************************)
(* The field decoders applied to one field                                 *)
(***************************************************************************)
\* Two-character chunks a field is written from.
MaxPairs == 4

AddrPairPool ==
    {T(<<"0", "0">>), T(<<"0", "1">>), T(<<"A", "8">>), T(<<"c", "0">>),
     T(<<"f", "F">>), T(<<"0", "g">>), T(<<"@", "0">>)}

FlagPairPool ==
    {T(<<"0", "0">>), T(<<"0", "1">>), T(<<"0", "2">>), T(<<"0", "4">>),
     T(<<"0", "8">>), T(<<"1", "0">>), T(<<"2", "0">>), T(<<"4", "0">>),
     T(<<"8", "0">>), T(<<"1", "8">>)}

\* A last piece that makes the length odd, or nothing.
TailPool == {<<>>, T(<<"1">>)}

PairLists(pool) == UNION {[1..n -> pool] : n \in 0..MaxPairs}

InitField ==
    /\ family \in {4, 6}
    /\ NoTable
    /\ \/ /\ family = 4
          /\ \E ps \in PairLists(AddrPairPool), tl \in TailPool :
                parts = ps \o <<tl>>
       \/ /\ family = 6
          /\ \E ps \in PairLists(FlagPairPool) : parts = ps
    /\ text = Concat(parts)
    /\ result = NotApplied
    /\ applied = "none"

\* hex_str_to_ipv4(field)
HexStrToIpv4 ==
    /\ family = 4 /\ applied = "none"
    /\ result' = hex_str_to_ipv4(text)
    /\ applied' = "hex_str_to_ipv4"
    /\ UNCHANGED <<tableVars, parts, text>>

\* The flags initialiser of Ipv6RouteEntry::from_str on the field.
DecodeFlags6 ==
    /\ family = 6 /\ applied = "none"
    /\ result' = Ipv6FlagsField(<<text>>, 0)
    /\ applied' = "flags"
    /\ UNCHANGED <<tableVars, parts, text>>

NextField == HexStrToIpv4 \/ DecodeFlags6

FieldSpec == InitField /\ [][NextField]_vars

(***************************************************************************)
(* Properties of the route table iterators                                 *)
(***************************************************************************)
\* A read that gives the well-formed data line of the family.
WellFormedRead(fam, read) ==
    ~read.io /\ read.line = (IF fam = 4 THEN GoodLine4 ELSE GoodLine6)

\* A read that gives a line of text that is no data line of the family.
MalformedRead(fam, read) == ~read.io /\ ~WellFormedRead(fam, read)

\* out is a parse error followed by an entry named "lo", as far as the
\* calls made allow; the bad line does not end the iteration.
ErrorThenEntry ==
    /\ calls >= 1 =>
          /\ ~(calls = 1 /\ ended)
          /\ Len(out) >= 1 /\ IsErr(out[1]) /\ out[1].err.kind # "Io"
    /\ calls >= 2 =>
          /\ Len(out) = 2 /\ IsOk(out[2]) /\ out[2].val.name = T(<<"l", "o">>)
          /\ ~(calls = 2 /\ ended)
    /\ calls >= 3 => ended

\* C1 as stated: over a source of one malformed line followed by one
\* well-formed line (and then the end of the file), either table yields
\* exactly two items, an error then an entry.
C1_TwoLinesTwoItems ==
    (/\ Len(src) = 2 /\ src_end = "Eof"
     /\ MalformedRead(family, src[1])
     /\ WellFormedRead(family, src[2])) => ErrorThenEntry

\* C1 (amended): the IPv6 table over a source of one malformed line followed
\* by one well-formed line, and the IPv4 table over a source of one leading
\* line (which it skips) followed by one malformed and one well-formed line,
\* yield exactly two items, in that order: a parse error, then a valid entry;
\* the bad line does not end or shorten the iteration.
C1_ErrorThenEntry ==
    LET lead == IF family = 4 THEN Ipv4SkipCount ELSE Ipv6SkipCount
    IN  (/\ Len(src) = lead + 2 /\ src_end = "Eof"
         /\ MalformedRead(family, src[lead + 1])
         /\ WellFormedRead(family, src[lead + 2])) => ErrorThenEntry

C1_Witness ==
    /\ family = 4 /\ Len(src) = 3 /\ src_end = "Eof"
    /\ MalformedRead(4, src[2]) /\ WellFormedRead(4, src[3])
    /\ ended /\ Len(out) = 2 /\ IsErr(out[1]) /\ IsOk(out[2])

\* The number of reads of s that failed with an I/O error.
RECURSIVE IoReads(_)
IoReads(s) ==
    IF s = <<>> THEN 0 ELSE (IF Head(s).io THEN 1 ELSE 0) + IoReads(Tail(s))

\* The number of items of o that are an Io error.
RECURSIVE IoItems(_)
IoItems(o) ==
    IF o = <<>> THEN 0
    ELSE (IF IsErr(Head(o)) /\ Head(o).err = IoError THEN 1 ELSE 0)
             + IoItems(Tail(o))

\* C2: every I/O failure of the line source, at whatever position (the first
\* read included), is yielded as one item-level Io error: once the iteration
\* has ended, out holds as many Io items as the source had failed reads.
C2_EveryIoFailureYielded == ended => IoItems(out) = IoReads(src)

\* C3: the sequence is finite for any line source: called repeatedly,
\* next() returns None by the call that follows the last line at the latest,
\* having yielded at most as many items as the source has lines; over an
\* empty source the first call already returns None, with no item and no
\* error.
C3_Finite ==
    /\ Len(out) <= Len(src)
    /\ calls > Len(src) => ended
    /\ ended => pos = Len(src)
    /\ src = <<>> /\ calls >= 1 => ended /\ out = <<>>

\* C4: over a source of n lines (n reads, then the end of the file) the
\* IPv4 table skips exactly one leading line and the IPv6 table none: the
\* k-th item is the outcome for source line k+1 (IPv4) or k (IPv6), in
\* source order, one per line, and a finished iteration has yielded
\* max(n-1, 0) (IPv4) or n (IPv6) items.
C4_SkipOneOrNone ==
    src_end = "Eof" =>
    /\ family = 4 =>
          /\ \A k \in 1..Len(out) :
                k + 1 <= Len(src) /\ out[k] = Ipv4Item(src[k + 1])
          /\ ended => Len(out) = (IF Len(src) >= 1 THEN Len(src) - 1 ELSE 0)
    /\ family = 6 =>
          /\ \A k \in 1..Len(out) :
                k <= Len(src) /\ out[k] = Ipv6Item(src[k])
          /\ ended => Len(out) = Len(src)

C4_Witness ==
    /\ family = 4 /\ Len(src) = MaxLines /\ src_end = "Eof" /\ ended
    /\ Len(out) = Len(src) - 1 /\ out[1] = Ipv4Item(src[2])

(***************************************************************************)
(* The text format of the fields, as the format description gives it       *)
(***************************************************************************)
HexLower ==
    T(<<"0", "1", "2", "3", "4", "5", "6", "7", "8", "9",
        "a", "b", "c", "d", "e", "f">>)

HexUpper ==
    T(<<"0", "1", "2", "3", "4", "5", "6", "7", "8", "9",
        "A", "B", "C", "D", "E", "F">>)

IsHexDigit(b) == \E i \in 1..16 : HexLower[i] = b \/ HexUpper[i] = b

\* The value 0..15 a hex digit stands for.
HexDigitValue(b) ==
    (CHOOSE i \in 1..16 : HexLower[i] = b \/ HexUpper[i] = b) - 1

AllHex(t) == \A i \in 1..Len(t) : IsHexDigit(t[i])

\* A field of exactly w hex digits.
HexField(t, w) == Len(t) = w /\ AllHex(t)

\* The byte the i-th pair of hex digits of t encodes.
ByteAt(t, i) == 16 * HexDigitValue(t[2 * i - 1]) + HexDigitValue(t[2 * i])

\* Positions (from 1) of the fields of each type in a line.
Ipv4AddrPositions == {2, 3, 8}

Ipv4BytePositions == {5, 6, 7, 9, 10, 11}

\* Some field of the line violates the format of its type.
FormatViolation(fam, p) ==
    IF fam = 4
    THEN \/ \E i \in Ipv4AddrPositions : ~HexField(p[i], 8)
         \/ ~HexField(p[4], 4)
         \/ \E i \in Ipv4BytePositions : ~HexField(p[i], 2)
    ELSE \/ \E i \in {1, 3, 5} : ~HexField(p[i], 32)
         \/ \E i \in {2, 4} : ~HexField(p[i], 2)
         \/ \E i \in {6, 7, 8, 9} : ~HexField(p[i], 8)

Parsed == applied = "from_str"

(***************************************************************************)
(* Properties of the entry parsers                                         *)
(***************************************************************************)
\* C5: a line with fewer fields than the minimum (11 for IPv4, 10 for IPv6)
\* fails with InvalidFieldCount{expected = the minimum, found = the count},
\* whatever the fields that are present hold: the count is checked before
\* any field is decoded.
C5_FieldCountFirst ==
    Parsed =>
        /\ family = 4 /\ Len(parts) < 11 =>
              result = Err(InvalidFieldCount(11, Len(parts)))
        /\ family = 6 /\ Len(parts) < 10 =>
              result = Err(InvalidFieldCount(10, Len(parts)))

C5_Witness ==
    /\ Parsed /\ family = 6 /\ Len(parts) = 9
    /\ ~HexField(parts[1], 32)
    /\ result = Err(InvalidFieldCount(10, 9))

U8 == 0..255

IsU32(w) == w.hi \in 0..65535 /\ w.lo \in 0..65535

IsOctets(a, n) == Len(a) = n /\ \A i \in 1..n : a[i] \in U8

Ipv4EntryComplete(e) ==
    /\ DOMAIN e = {"name", "dest", "gateway", "flags", "ref_count", "use_count",
                   "metric", "mask", "mtu", "window", "irtt"}
    /\ Len(e.name) > 0
    /\ IsOctets(e.dest, 4) /\ IsOctets(e.gateway, 4) /\ IsOctets(e.mask, 4)
    /\ e.flags \in 0..65535
    /\ {e.ref_count, e.use_count, e.metric, e.mtu, e.window, e.irtt} \subseteq U8

Ipv6EntryComplete(e) ==
    /\ DOMAIN e = {"dest", "dest_prefix", "src", "src_prefix", "next_hop",
                   "metric", "ref_count", "use_count", "flags", "name"}
    /\ Len(e.name) > 0
    /\ IsOctets(e.dest, 16) /\ IsOctets(e.src, 16) /\ IsOctets(e.next_hop, 16)
    /\ {e.dest_prefix, e.src_prefix} \subseteq U8
    /\ IsU32(e.metric) /\ IsU32(e.ref_count) /\ IsU32(e.use_count)
    /\ IsU32(e.flags)

TypedErrorKinds == {"Convert", "InvalidFieldCount", "MissingField", "SliceToBytes"}

\* C6: for every input line the parsers return a fully populated entry or
\* a typed error: no input makes them panic, no partial entry is returned.
C6_EntryOrTypedError ==
    Parsed =>
        /\ result.tag \in {"Ok", "Err"}
        /\ IsOk(result) =>
              IF family = 4 THEN Ipv4EntryComplete(result.val)
              ELSE Ipv6EntryComplete(result.val)
        /\ IsErr(result) => result.err.kind \in TypedErrorKinds

C6_Witness ==
    /\ Parsed /\ family = 4 /\ Len(parts) >= 11
    /\ Len(parts[5]) = 1 /\ IsOk(result) /\ Ipv4EntryComplete(result.val)

\* The entry field each single-byte position of an IPv4 line fills.
Ipv4ByteOf(e, i) ==
    CASE i = 5 -> e.ref_count [] i = 6 -> e.use_count [] i = 7 -> e.metric
      [] i = 9 -> e.mtu [] i = 10 -> e.window [] i = 11 -> e.irtt

\* C7: in an IPv4 line each of RefCnt, Use, Metric, MTU, Window and IRTT,
\* written as two hex digits h l, decodes to the byte 16*value(h) + value(l).
C7_TwoHexDigitsOneByte ==
    Parsed /\ family = 4 /\ IsOk(result) =>
        \A i \in Ipv4BytePositions :
            HexField(parts[i], 2) => Ipv4ByteOf(result.val, i) = ByteAt(parts[i], 1)

\* C10: a field that violates the format of its type (a character that is
\* no hex digit, an odd length, a wrong width) makes the parse of the whole
\* line fail with an error: no such line yields an entry.
C10_FormatViolationFails ==
    Parsed /\ Len(parts) >= MinFields(family) /\ FormatViolation(family, parts)
        => IsErr(result)

(***************************************************************************)
(* Properties of the field decoders                                        *)
(***************************************************************************)
\* The first byte of t that is no hex digit.
FirstNonHex(t) ==
    t[CHOOSE i \in 1..Len(t) :
          ~IsHexDigit(t[i]) /\ \A j \in 1..(i - 1) : IsHexDigit(t[j])]

\* C8: an 8-hex-digit field that encodes the bytes b0 b1 b2 b3 decodes to
\* the address b3.b2.b1.b0; a field that is not 8 characters long fails with
\* the length error (OddStringLength), one of 8 characters with a character
\* that is no hex digit fails with OutOfHexRange of the first such character.
C8_Ipv4BytesReversed ==
    applied = "hex_str_to_ipv4" =>
        /\ Len(text) # 8 => result = Err(OddStringLength(text))
        /\ Len(text) = 8 /\ ~AllHex(text) =>
              result = Err(OutOfHexRange(FirstNonHex(text)))
        /\ HexField(text, 8) =>
              result = Ok(<<ByteAt(text, 4), ByteAt(text, 3),
                            ByteAt(text, 2), ByteAt(text, 1)>>)

C8_Witness ==
    /\ applied = "hex_str_to_ipv4"
    /\ text = T(<<"0", "1", "0", "0", "A", "8", "c", "0">>)
    /\ result = Ok(<<192, 168, 0, 1>>)

FlagNames == DOMAIN Ipv6RouteFlags

PowersOfTwo == {1, 2, 4, 8, 16, 32, 64, 128, 256, 512, 1024, 2048, 4096,
                8192, 16384, 32768}

SingleBit(w) ==
    \/ w.hi = 0 /\ w.lo \in PowersOfTwo
    \/ w.lo = 0 /\ w.hi \in PowersOfTwo

\* The 32-bit value an 8-hex-digit field encodes, most significant first.
RawValue(t) ==
    U32(256 * ByteAt(t, 1) + ByteAt(t, 2), 256 * ByteAt(t, 3) + ByteAt(t, 4))

\* The field encodes exactly the named single-bit flag fl.
EncodesFlag(t, fl) ==
    /\ HexField(t, 8)
    /\ SingleBit(Ipv6RouteFlags[fl])
    /\ RawValue(t) = Ipv6RouteFlags[fl]

\* C9 as stated: a flags field whose raw value is exactly one named
\* single-bit flag ("00010000": DEFAULT) decodes to a value for which
\* contains(f) is true for that flag and for no other named flag.
C9_ContainsOnlyThatFlag ==
    applied = "flags" =>
        \A fl \in FlagNames :
            EncodesFlag(text, fl) =>
                /\ IsOk(result)
                /\ \A f \in FlagNames :
                      Ipv6RouteFlags_contains(result.val, Ipv6RouteFlags[f])
                          <=> f = fl

\* Bits 27-28 of a 32-bit value (mask 0x18000000), as a number in 0..3.
PreferenceBits(w) == (w.hi \div 2048) % 4

\* C9 (amended): a flags field whose raw value is exactly one named
\* single-bit flag outside the preference sub-field, bits 27-28
\* ("00010000": DEFAULT), decodes to a value for which contains(f) is true
\* for that flag and for PREF_RESERVED, the preference value of a raw value
\* whose bits 27-28 are 0, and for no other named flag.
C9_ContainsThatFlagAndZero ==
    applied = "flags" =>
        \A fl \in FlagNames :
            EncodesFlag(text, fl) /\ PreferenceBits(Ipv6RouteFlags[fl]) = 0 =>
                /\ IsOk(result)
                /\ \A f \in FlagNames :
                      Ipv6RouteFlags_contains(result.val, Ipv6RouteFlags[f])
                          <=> (f = fl \/ f = "PREF_RESERVED")

C9_Witness ==
    /\ applied = "flags"
    /\ text = T(<<"0", "0", "0", "1", "0", "0", "0", "0">>)
    /\ IsOk(result)
    /\ Ipv6RouteFlags_contains(result.val, Ipv6RouteFlags["DEFAULT"])
    /\ Ipv6RouteFlags_contains(result.val, Ipv6RouteFlags["PREF_RESERVED"])
    /\ ~Ipv6RouteFlags_contains(result.val, Ipv6RouteFlags["UP"])

\* The four named router preferences, by the value of the 2-bit sub-field.
PreferenceNames ==
    <<"PREF_RESERVED", "PREF_HIGH", "PREF_MEDIUM", "PREF_LOW">>

\* The named preferences the flags value matches: contains(PREF_x) is true.
MatchedPreferences(flags) ==
    {i \in 1..Len(PreferenceNames) :
        Ipv6RouteFlags_contains(flags, Ipv6RouteFlags[PreferenceNames[i]])}

\* C11: the flags value built from any 32-bit raw value (an 8-hex-digit
\* flags field, all bits retained) matches exactly one of the four named
\* router preferences, the one bits 27-28 of the raw value select:
\* 0 PREF_RESERVED, 1 PREF_HIGH, 2 PREF_MEDIUM, 3 PREF_LOW.
C11_ExactlyOnePreference ==
    (applied = "flags" /\ HexField(text, 8)) =>
        /\ IsOk(result)
        /\ MatchedPreferences(result.val) = {PreferenceBits(RawValue(text)) + 1}

=============================================================================
